---- MODULE Spec2Model ----
(***************************************************************************)
(* Model of the garment production dashboard (src/main.py): a Streamlit    *)
(* script that is re-run once per request cycle against one SQLite file.   *)
(* The state is the committed content of the five tables, the session      *)
(* flag, the clock, and what the last request cycle submitted and          *)
(* displayed.  One action is one request cycle: the script run from the    *)
(* authentication gate to conn.close().                                    *)
(*                                                                         *)
(* Numbers.  Money rates and fabric_issued are whole numbers (Python       *)
(* floats are exact on them).  Fabric per unit and fabric required are in  *)
(* tenths of a metre, so the constants 1.5 / 1.0 / 2.5 are 15 / 10 / 25.   *)
(* cost_per_unit is a fraction in lowest terms.                            *)
(***************************************************************************)
EXTENDS Integers, Sequences, FiniteSets, TLC

VARIABLES
    orders,               \* table orders, in rowid order (committed content)
    fabric_cost_1,        \* table fabric_cost_1, one row per primary key
    fabric_standards,     \* table fabric_standards, in rowid order
    fabric_cost_history,  \* table fabric_cost_history, in rowid order
    accessories_details,  \* table accessories_details, in rowid order
    authenticated,        \* st.session_state["authenticated"]
    username,             \* st.session_state["username"]
    now,                  \* datetime.now() of the next script run that reads the clock
    request,              \* the page, button and widget values of the last script run
    view,                 \* what the last script run displayed
    saved                 \* per order number, the cost forms acknowledged as saved

vars == <<orders, fabric_cost_1, fabric_standards, fabric_cost_history,
          accessories_details, authenticated, username, now, request, view, saved>>

store == <<orders, fabric_cost_1, fabric_standards, fabric_cost_history,
           accessories_details>>

session == <<authenticated, username>>

-----------------------------------------------------------------------------
(* Bounds of the exploration *)

MaxStep == 2

MaxQty == 2

MaxStd == 2

-----------------------------------------------------------------------------
(* Program constants *)

FABRIC_STANDARD == [top |-> 15, trouser |-> 10, suit |-> 25]

PRODUCT_MAPPING == [Tops |-> "top", Trousers |-> "trouser", Suits |-> "suit"]

users == [admin |-> "admin123", user1 |-> "password1"]

SeedStandards ==
    << [product_type |-> "top",     size |-> "standard", style |-> "regular", fabric_per_unit |-> 15],
       [product_type |-> "trouser", size |-> "standard", style |-> "regular", fabric_per_unit |-> 10],
       [product_type |-> "suit",    size |-> "standard", style |-> "regular", fabric_per_unit |-> 25] >>

ProductOptions == {"Tops", "Trousers", "Suits"}

ZeroDefaults == <<0, 0, 0, 0, 0, 0, 0, 0, 0, 0, 0, 0>>

-----------------------------------------------------------------------------
(* Input sets of the exploration *)

OrderNumbers == {"ORD-2023-004", "ORD-2023-005"}

\* date.today() of the script runs explored.
Today == [year |-> 2024, month |-> 1, day |-> 1]

\* What the order form submits besides the quantity.
OrderForms ==
    { [order_number |-> "ORD-2023-004", customer |-> "Acme Corp", product |-> "Tops",
       due_date |-> [year |-> 2023, month |-> 12, day |-> 31]],
      [order_number |-> "ORD-2023-004", customer |-> "Zen Ltd", product |-> "Suits",
       due_date |-> [year |-> 2024, month |-> 1, day |-> 2]],
      [order_number |-> "ORD-2023-005", customer |-> "Zen Ltd", product |-> "Trousers",
       due_date |-> [year |-> 2024, month |-> 1, day |-> 1]] }

\* The days on which the Dashboard is opened: the due date of one order, the day before
\* it, and a day a month later.
Todays ==
    { Today,
      [year |-> 2023, month |-> 12, day |-> 31],
      [year |-> 2024, month |-> 2, day |-> 1] }

\* The smallest and the largest quantity the order form submits.
Quantities == {1, MaxQty}

LoginAttempts ==
    { [username |-> "admin", password |-> "admin123"],
      [username |-> "admin", password |-> "password1"],
      [username |-> "guest", password |-> "admin123"] }

CostInput(t) ==
    [fabric_issued |-> t[1], fabric_rate |-> t[2], accessories_rate |-> t[3],
     printing_rate |-> t[4], overhead_per_unit |-> t[5], labor_cutting_rate |-> t[6],
     labor_sewing_rate |-> t[7], labor_finishing_rate |-> t[8], dyeing_rate |-> t[9],
     embroidery_rate |-> t[10], shipping_cost |-> t[11], misc_cost |-> t[12]]

\* The worked example of the specification.
ExampleInput == CostInput(<<15, 5, 2, 1, 3, 4, 4, 4, 0, 0, 50, 10>>)

\* A form on the edges of both advisory ranges: 6 m issued is 1.2 times the 5.0 m that
\* two suits require, and the rate is the upper end of the typical range.
EdgeInput == CostInput(<<6, 50, 0, 0, 0, 0, 0, 0, 0, 0, 0, 0>>)

\* The cost forms submitted in the store exploration.
CostForms ==
    { ExampleInput,
      CostInput(<<1, 2, 3, 4, 5, 6, 7, 8, 9, 10, 11, 12>>),
      CostInput(<<0, 0, 0, 0, 0, 0, 0, 0, 0, 0, 0, 0>>),
      EdgeInput }

-----------------------------------------------------------------------------
(* Arithmetic helpers *)

RECURSIVE GCD(_, _)
GCD(a, b) == IF b = 0 THEN a ELSE GCD(b, a % b)

\* n / d as Python's true division gives it, kept exact: a fraction in lowest terms.
TrueDiv(n, d) == LET g == GCD(n, d) IN [num |-> n \div g, den |-> d \div g]

Whole(n) == [num |-> n, den |-> 1]

RECURSIVE SumSeq(_)
SumSeq(s) == IF s = <<>> THEN 0 ELSE Head(s) + SumSeq(Tail(s))

\* s without its element at position i.
RemoveAt(s, i) == SubSeq(s, 1, i - 1) \o SubSeq(s, i + 1, Len(s))

\* ORDER BY last_updated DESC (rows with equal stamps stay in rowid order).
RECURSIVE OrderByLastUpdatedDesc(_)
OrderByLastUpdatedDesc(s) ==
    IF s = <<>> THEN <<>>
    ELSE LET i == CHOOSE k \in 1..Len(s) :
                    \A j \in 1..Len(s) :
                        \/ s[k].last_updated > s[j].last_updated
                        \/ (s[k].last_updated = s[j].last_updated /\ k <= j)
         IN  <<s[i]>> \o OrderByLastUpdatedDesc(RemoveAt(s, i))

-----------------------------------------------------------------------------
(* Dates: st.date_input gives a date, the orders table keeps its "%Y-%m-%d" text *)

\* due_date.strftime("%Y-%m-%d"): zero-padded year, month, day, compared as text.
Strftime(d) == <<d.year, d.month, d.day>>

\* pd.to_datetime(text).dt.date
ToDate(t) == [year |-> t[1], month |-> t[2], day |-> t[3]]

DateBeforeOrSame(a, b) ==
    \/ a.year < b.year
    \/ (a.year = b.year /\ a.month < b.month)
    \/ (a.year = b.year /\ a.month = b.month /\ a.day <= b.day)

\* a < b of two datetime.date values
DateBefore(a, b) ==
    \/ a.year < b.year
    \/ (a.year = b.year /\ a.month < b.month)
    \/ (a.year = b.year /\ a.month = b.month /\ a.day < b.day)

-----------------------------------------------------------------------------
(* Session: the credential table and the authentication gate *)

CredentialsOk(u, p) == u \in DOMAIN users /\ users[u] = p

GateOpen == TRUE

\* The script reaches the pages only when the session flag is set.
Gate == authenticated

-----------------------------------------------------------------------------
(* Orders table *)

UniqueOff(number) == FALSE

\* order_number TEXT UNIQUE: the INSERT raises IntegrityError on a stored number.
UniqueViolation(number) == \E i \in 1..Len(orders) : orders[i].order_number = number

\* INSERT INTO orders (order_number, customer, product, due_date, quantity) under the
\* next AUTOINCREMENT id: the four stage counters take their DEFAULT 0.
OrderRow(id, form, quantity) ==
    [id |-> id,
     order_number |-> form.order_number,
     customer |-> form.customer,
     product |-> form.product,
     due_date |-> Strftime(form.due_date),
     quantity |-> quantity,
     cutting |-> 0, sewing |-> 0, finishing |-> 0, packaging |-> 0]

StageRangeWide(quantity) == 0..(quantity + 1)

\* st.number_input(label, 0, row["quantity"], ...): the values a stage widget can hold.
StageRange(quantity) == 0..quantity

DeriveStatusStrict(row) == IF row.packaging > row.quantity THEN "Closed" ELSE "Open"

\* "Closed" if row["packaging"] >= row["quantity"] else "Open"
DeriveStatus(row) == IF row.packaging >= row.quantity THEN "Closed" ELSE "Open"

\* order_map = {row[0]: row for row in order_data}: a later row replaces an earlier key.
OrderMapKeys == {orders[i].order_number : i \in 1..Len(orders)}

OrderMap(number) ==
    orders[CHOOSE i \in 1..Len(orders) :
              /\ orders[i].order_number = number
              /\ \A j \in 1..Len(orders) : orders[j].order_number = number => j <= i]

-----------------------------------------------------------------------------
(* Cost Sheet: item type and the fabric standard *)

\* str.capitalize() and str.lower() on the product names of the exploration.
Capitalize(p) ==
    CASE p = "TOP" -> "Top"
      [] p = "suits" -> "Suits"
      [] OTHER -> p

Lower(p) ==
    CASE p = "Tops" -> "tops"
      [] p = "Trousers" -> "trousers"
      [] p = "Suits" -> "suits"
      [] p = "TOP" -> "top"
      [] p = "Cape" -> "cape"
      [] OTHER -> p

\* dict.get(key, default)
DictGet(d, k, default) == IF k \in DOMAIN d THEN d[k] ELSE default

\* PRODUCT_MAPPING.get(product.capitalize(), product.lower())
ItemType(product) == DictGet(PRODUCT_MAPPING, Capitalize(product), Lower(product))

StandardFabricAnySize(item_type) ==
    LET Match(r) == r.product_type = item_type
        m == SelectSeq(fabric_standards, Match)
    IN  IF m = <<>> THEN <<>> ELSE <<m[1].fabric_per_unit>>

\* SELECT fabric_per_unit FROM fabric_standards WHERE product_type = ? AND size = 'standard',
\* then fetchone(): the first matching row as a 1-tuple, or None (the empty tuple here).
StandardFabric(item_type) ==
    LET Match(r) == r.product_type = item_type /\ r.size = "standard"
        m == SelectSeq(fabric_standards, Match)
    IN  IF m = <<>> THEN <<>> ELSE <<m[1].fabric_per_unit>>

\* standard_fabric[0] * units if standard_fabric else FABRIC_STANDARD.get(item_type, 0) * units
FabricRequiredStd(item_type, units) ==
    LET standard_fabric == StandardFabric(item_type)
    IN  IF standard_fabric # <<>> THEN standard_fabric[1] * units
        ELSE DictGet(FABRIC_STANDARD, item_type, 0) * units

\* item_type not in FABRIC_STANDARD and not standard_fabric
NoStandardWarning(item_type) ==
    item_type \notin DOMAIN FABRIC_STANDARD /\ StandardFabric(item_type) = <<>>

\* The override widget: its value is what the user entered, and when the user left it
\* alone it is the widget's default, value=FABRIC_STANDARD.get(item_type, 0).
OverrideWidget(item_type, override) ==
    IF override.touched THEN override.value ELSE DictGet(FABRIC_STANDARD, item_type, 0)

\* fabric_required_override * units if fabric_required_override else fabric_required_std
FabricRequired(fabric_required_override, units, fabric_required_std) ==
    IF fabric_required_override # 0 THEN fabric_required_override * units
    ELSE fabric_required_std

ValidateInclusive(fabric_issued, fabric_required, fabric_rate) ==
    [deviation |-> \/ 100 * fabric_issued <= 8 * fabric_required
                   \/ 100 * fabric_issued >= 12 * fabric_required,
     unusual_rate |-> fabric_rate <= 1 \/ fabric_rate >= 50]

\* The two advisories. fabric_issued is in metres, fabric_required in tenths of a metre:
\* issued < required * 0.8 is 100 * issued < 8 * required-in-tenths.
Validate(fabric_issued, fabric_required, fabric_rate) ==
    [deviation |-> \/ 100 * fabric_issued < 8 * fabric_required
                   \/ 100 * fabric_issued > 12 * fabric_required,
     unusual_rate |-> fabric_rate < 1 \/ fabric_rate > 50]

-----------------------------------------------------------------------------
(* Cost Sheet: calculations *)

ComputeNoShipping(units, inp) ==
    LET fabric_cost == inp.fabric_issued * inp.fabric_rate
        total_cost == fabric_cost + units * inp.accessories_rate + units * inp.printing_rate
                      + units * inp.overhead_per_unit + units * inp.labor_cutting_rate
                      + units * inp.labor_sewing_rate + units * inp.labor_finishing_rate
                      + units * inp.dyeing_rate + units * inp.embroidery_rate + inp.misc_cost
    IN  [fabric_cost |-> fabric_cost,
         accessories_cost |-> units * inp.accessories_rate,
         printing_cost |-> units * inp.printing_rate,
         overhead_cost |-> units * inp.overhead_per_unit,
         labor_cutting_cost |-> units * inp.labor_cutting_rate,
         labor_sewing_cost |-> units * inp.labor_sewing_rate,
         labor_finishing_cost |-> units * inp.labor_finishing_rate,
         dyeing_cost |-> units * inp.dyeing_rate,
         embroidery_cost |-> units * inp.embroidery_rate,
         total_cost |-> total_cost,
         cost_per_unit |-> IF units # 0 THEN TrueDiv(total_cost, units) ELSE Whole(0)]

Compute(units, inp) ==
    LET fabric_cost == inp.fabric_issued * inp.fabric_rate
        accessories_cost == units * inp.accessories_rate
        printing_cost == units * inp.printing_rate
        overhead_cost == units * inp.overhead_per_unit
        labor_cutting_cost == units * inp.labor_cutting_rate
        labor_sewing_cost == units * inp.labor_sewing_rate
        labor_finishing_cost == units * inp.labor_finishing_rate
        dyeing_cost == units * inp.dyeing_rate
        embroidery_cost == units * inp.embroidery_rate
        total_cost == fabric_cost + accessories_cost + printing_cost + overhead_cost
                      + labor_cutting_cost + labor_sewing_cost + labor_finishing_cost
                      + dyeing_cost + embroidery_cost + inp.shipping_cost + inp.misc_cost
    IN  [fabric_cost |-> fabric_cost,
         accessories_cost |-> accessories_cost,
         printing_cost |-> printing_cost,
         overhead_cost |-> overhead_cost,
         labor_cutting_cost |-> labor_cutting_cost,
         labor_sewing_cost |-> labor_sewing_cost,
         labor_finishing_cost |-> labor_finishing_cost,
         dyeing_cost |-> dyeing_cost,
         embroidery_cost |-> embroidery_cost,
         total_cost |-> total_cost,
         \* total_cost / units if units else 0
         cost_per_unit |-> IF units # 0 THEN TrueDiv(total_cost, units) ELSE Whole(0)]

-----------------------------------------------------------------------------
(* Cost Sheet: the cost tables *)

\* The sixteen values bound to the columns of either INSERT.
CostRow(order_number, item_type, units, inp, last_updated) ==
    [order_number |-> order_number, item_type |-> item_type, units |-> units,
     fabric_issued |-> inp.fabric_issued, fabric_rate |-> inp.fabric_rate,
     accessories_rate |-> inp.accessories_rate, printing_rate |-> inp.printing_rate,
     overhead_per_unit |-> inp.overhead_per_unit,
     labor_cutting_rate |-> inp.labor_cutting_rate,
     labor_sewing_rate |-> inp.labor_sewing_rate,
     labor_finishing_rate |-> inp.labor_finishing_rate,
     dyeing_rate |-> inp.dyeing_rate, embroidery_rate |-> inp.embroidery_rate,
     shipping_cost |-> inp.shipping_cost, misc_cost |-> inp.misc_cost,
     last_updated |-> last_updated]

\* A row of fabric_cost_history: the cost row under the next AUTOINCREMENT id.
HistoryRow(history, row) ==
    [id |-> Len(history) + 1, order_number |-> row.order_number,
     item_type |-> row.item_type, units |-> row.units,
     fabric_issued |-> row.fabric_issued, fabric_rate |-> row.fabric_rate,
     accessories_rate |-> row.accessories_rate, printing_rate |-> row.printing_rate,
     overhead_per_unit |-> row.overhead_per_unit,
     labor_cutting_rate |-> row.labor_cutting_rate,
     labor_sewing_rate |-> row.labor_sewing_rate,
     labor_finishing_rate |-> row.labor_finishing_rate,
     dyeing_rate |-> row.dyeing_rate, embroidery_rate |-> row.embroidery_rate,
     shipping_cost |-> row.shipping_cost, misc_cost |-> row.misc_cost,
     last_updated |-> row.last_updated]

InsertHistoryOnce(history, row) ==
    IF \E i \in 1..Len(history) : history[i].order_number = row.order_number
    THEN history
    ELSE Append(history, HistoryRow(history, row))

\* INSERT INTO fabric_cost_history (...) VALUES (...)
InsertHistory(history, row) == Append(history, HistoryRow(history, row))

UpsertMerge(table, excluded) ==
    IF \E r \in table : r.order_number = excluded.order_number
    THEN { IF r.order_number = excluded.order_number
           THEN [r EXCEPT !.item_type = excluded.item_type,
                          !.units = excluded.units,
                          !.fabric_issued = excluded.fabric_issued,
                          !.fabric_rate = excluded.fabric_rate,
                          !.accessories_rate = excluded.accessories_rate,
                          !.printing_rate = excluded.printing_rate,
                          !.overhead_per_unit = excluded.overhead_per_unit,
                          !.labor_cutting_rate = excluded.labor_cutting_rate,
                          !.labor_sewing_rate = excluded.labor_sewing_rate,
                          !.labor_finishing_rate = excluded.labor_finishing_rate,
                          !.dyeing_rate = excluded.dyeing_rate,
                          !.embroidery_rate = excluded.embroidery_rate,
                          !.shipping_cost = excluded.shipping_cost,
                          !.last_updated = excluded.last_updated]
           ELSE r : r \in table }
    ELSE table \cup {excluded}

\* INSERT INTO fabric_cost_1 (...) VALUES (...) ON CONFLICT(order_number) DO UPDATE SET
\* the fifteen other columns from the excluded row.
Upsert(table, excluded) ==
    IF \E r \in table : r.order_number = excluded.order_number
    THEN { IF r.order_number = excluded.order_number
           THEN [r EXCEPT !.item_type = excluded.item_type,
                          !.units = excluded.units,
                          !.fabric_issued = excluded.fabric_issued,
                          !.fabric_rate = excluded.fabric_rate,
                          !.accessories_rate = excluded.accessories_rate,
                          !.printing_rate = excluded.printing_rate,
                          !.overhead_per_unit = excluded.overhead_per_unit,
                          !.labor_cutting_rate = excluded.labor_cutting_rate,
                          !.labor_sewing_rate = excluded.labor_sewing_rate,
                          !.labor_finishing_rate = excluded.labor_finishing_rate,
                          !.dyeing_rate = excluded.dyeing_rate,
                          !.embroidery_rate = excluded.embroidery_rate,
                          !.shipping_cost = excluded.shipping_cost,
                          !.misc_cost = excluded.misc_cost,
                          !.last_updated = excluded.last_updated]
           ELSE r : r \in table }
    ELSE table \cup {excluded}

\* SELECT the twelve inputs FROM fabric_cost_1 WHERE order_number = ?, fetchone(),
\* and the twelve 0.0 defaults when there is no row.
LoadCost(table, order_number) ==
    LET m == {r \in table : r.order_number = order_number}
    IN  IF m = {} THEN ZeroDefaults
        ELSE LET r == CHOOSE x \in m : TRUE
             IN  <<r.fabric_issued, r.fabric_rate, r.accessories_rate, r.printing_rate,
                   r.overhead_per_unit, r.labor_cutting_rate, r.labor_sewing_rate,
                   r.labor_finishing_rate, r.dyeing_rate, r.embroidery_rate,
                   r.shipping_cost, r.misc_cost>>

\* SELECT * FROM fabric_cost_history WHERE order_number = ? ORDER BY last_updated DESC
HistoryListing(history, order_number) ==
    LET Match(r) == r.order_number = order_number
    IN  OrderByLastUpdatedDesc(SelectSeq(history, Match))

\* SELECT accessory_type, quantity, rate FROM accessories_details WHERE order_number = ?
AccessoryListing(accessories, order_number) ==
    LET Match(r) == r.order_number = order_number
        m == SelectSeq(accessories, Match)
    IN  [i \in 1..Len(m) |->
            [accessory_type |-> m[i].accessory_type, quantity |-> m[i].quantity,
             rate |-> m[i].rate, total_cost |-> m[i].quantity * m[i].rate]]

\* The ledger total, or units * accessories_rate when the order has no line item.
TotalAccessoriesCost(listing, units, accessories_rate) ==
    IF listing # <<>>
    THEN SumSeq([i \in 1..Len(listing) |-> listing[i].total_cost])
    ELSE units * accessories_rate

-----------------------------------------------------------------------------
(* Database setup at the top of every script run *)

\* CREATE TABLE IF NOT EXISTS keeps the rows of the file; the three default standards
\* are inserted only into an empty fabric_standards table.
DatabaseSetup(existing_standards) ==
    IF Len(existing_standards) = 0 THEN SeedStandards ELSE existing_standards

NoSaves == [o \in OrderNumbers |-> <<>>]

\* First run on a new database file, before anybody has logged in.
Init ==
    /\ orders = <<>>
    /\ fabric_cost_1 = {}
    /\ fabric_standards = DatabaseSetup(<<>>)
    /\ fabric_cost_history = <<>>
    /\ accessories_details = <<>>
    /\ authenticated = FALSE
    /\ username = ""
    /\ now = 0
    /\ request = [page |-> "None"]
    /\ view = [page |-> "Login", message |-> ""]
    /\ saved = NoSaves

-----------------------------------------------------------------------------
(* Login screen and logout button *)

Login(att) ==
    /\ ~authenticated
    /\ request' = [page |-> "Login", username |-> att.username, password |-> att.password]
    /\ IF CredentialsOk(att.username, att.password)
       THEN /\ authenticated' = TRUE
            /\ username' = att.username
            /\ view' = [page |-> "Login", message |-> "Welcome"]
       ELSE /\ UNCHANGED session
            /\ view' = [page |-> "Login", message |-> "Invalid credentials."]
    /\ UNCHANGED <<store, now, saved>>

Logout ==
    /\ Gate
    /\ authenticated' = FALSE
    /\ request' = [page |-> "Logout"]
    /\ view' = [page |-> "Login", message |-> ""]
    /\ UNCHANGED <<store, username, now, saved>>

-----------------------------------------------------------------------------
(* Dashboard page *)

\* len(df[df["due_date"].dt.date > today])
OnTrack(today) ==
    Cardinality({i \in 1..Len(orders) : DateBefore(today, ToDate(orders[i].due_date))})

\* len(df[df["due_date"].dt.date < today])
AtRisk(today) ==
    Cardinality({i \in 1..Len(orders) : DateBefore(ToDate(orders[i].due_date), today)})

Dashboard(today) ==
    /\ Gate
    /\ request' = [page |-> "Dashboard", today |-> today]
    /\ view' = IF orders = <<>>
               THEN [page |-> "Dashboard", message |-> "No data available. Add orders to get started."]
               ELSE [page |-> "Dashboard", message |-> "",
                     active_orders |-> Len(orders),
                     on_track |-> OnTrack(today),
                     at_risk |-> AtRisk(today)]
    /\ UNCHANGED <<store, session, now, saved>>

-----------------------------------------------------------------------------
(* Orders page *)

OrdersPage ==
    /\ Gate
    /\ request' = [page |-> "Orders", button |-> "None"]
    /\ view' = [page |-> "Orders", message |-> "", rows |-> orders]
    /\ UNCHANGED <<store, session, now, saved>>

UpdateOrdersNoWhere(table, id, cutting, sewing, finishing, packaging) ==
    [i \in 1..Len(table) |->
        [table[i] EXCEPT !.cutting = cutting, !.sewing = sewing,
                         !.finishing = finishing, !.packaging = packaging]]

\* UPDATE orders SET cutting=?, sewing=?, finishing=?, packaging=? WHERE id=?
UpdateOrders(table, id, cutting, sewing, finishing, packaging) ==
    [i \in 1..Len(table) |->
        IF table[i].id = id
        THEN [table[i] EXCEPT !.cutting = cutting, !.sewing = sewing,
                              !.finishing = finishing, !.packaging = packaging]
        ELSE table[i]]

\* The Update button of the order with this id: the four widget values are written.
UpdateStages(id, cutting, sewing, finishing, packaging) ==
    /\ Gate
    /\ id \in 1..Len(orders)
    /\ cutting \in StageRange(orders[id].quantity)
    /\ sewing \in StageRange(orders[id].quantity)
    /\ finishing \in StageRange(orders[id].quantity)
    /\ packaging \in StageRange(orders[id].quantity)
    /\ orders' = UpdateOrders(orders, id, cutting, sewing, finishing, packaging)
    /\ request' = [page |-> "Orders", button |-> "Update", id |-> id,
                   cutting |-> cutting, sewing |-> sewing,
                   finishing |-> finishing, packaging |-> packaging]
    /\ view' = [page |-> "Orders", message |-> "Updated!", rows |-> orders']
    /\ UNCHANGED <<fabric_cost_1, fabric_standards, fabric_cost_history,
                   accessories_details, session, now, saved>>

-----------------------------------------------------------------------------
(* Record page *)

RecordRow(row) ==
    [order_number |-> row.order_number, customer |-> row.customer,
     due_date |-> ToDate(row.due_date), quantity |-> row.quantity,
     cutting |-> row.cutting, sewing |-> row.sewing, finishing |-> row.finishing,
     packaging |-> row.packaging, status |-> DeriveStatus(row)]

Record(status_filter) ==
    /\ Gate
    /\ request' = [page |-> "Record", status_filter |-> status_filter]
    /\ LET df == [i \in 1..Len(orders) |-> RecordRow(orders[i])]
           Keep(r) == status_filter = "All" \/ r.status = status_filter
       IN  view' = [page |-> "Record", message |-> "", rows |-> SelectSeq(df, Keep)]
    /\ UNCHANGED <<store, session, now, saved>>

-----------------------------------------------------------------------------
(* Data Entry page *)

CreateOrder(form, quantity) ==
    /\ Gate
    /\ form.product \in ProductOptions
    /\ quantity >= 1
    /\ request' = [page |-> "Data Entry", order_number |-> form.order_number,
                   customer |-> form.customer, product |-> form.product,
                   due_date |-> form.due_date, quantity |-> quantity]
    /\ IF UniqueViolation(form.order_number)
       THEN /\ orders' = orders
            /\ view' = [page |-> "Data Entry", message |-> "Order number must be unique."]
       ELSE /\ orders' = Append(orders, OrderRow(Len(orders) + 1, form, quantity))
            /\ view' = [page |-> "Data Entry", message |-> "Order added successfully!"]
    /\ UNCHANGED <<fabric_cost_1, fabric_standards, fabric_cost_history,
                   accessories_details, session, now, saved>>

-----------------------------------------------------------------------------
(* Cost Sheet page *)

OverrideInputs ==
    { [touched |-> FALSE, value |-> 0],
      [touched |-> TRUE, value |-> 0],
      [touched |-> TRUE, value |-> 20] }

\* Where a write of the save fails, and whether SQLite has rolled the open transaction
\* back by itself when it reports the error or has left it open.
SaveFaults ==
    { [at |-> "none", txn |-> "open"],
      [at |-> "insert", txn |-> "open"],
      [at |-> "upsert", txn |-> "open"],
      [at |-> "upsert", txn |-> "rolled_back"],
      [at |-> "commit", txn |-> "open"] }

NoFault == [at |-> "none", txn |-> "open"]

CloseKeepsPending(stored, written, committed) == written

\* conn.close() at the end of the script: what the run wrote stays in the file when the
\* run has committed it, and is discarded with the open transaction when it has not.
Close(stored, written, committed) == IF committed THEN written ELSE stored

\* What one run of the Cost Sheet page displays for the selected order: inp are the
\* values of the twelve form widgets, history_seen and accessories_seen are the tables
\* as the connection of this run reads them after its writes.
CostSheetPage(selected_order, inp, override, message, history_seen, accessories_seen) ==
    LET row == OrderMap(selected_order)
        item_type == ItemType(row.product)
        units == row.quantity
        fabric_required_std == FabricRequiredStd(item_type, units)
        fabric_required_override == OverrideWidget(item_type, override)
        fabric_required == FabricRequired(fabric_required_override, units, fabric_required_std)
        accessories == AccessoryListing(accessories_seen, row.order_number)
    IN  [page |-> "Cost Sheet",
         message |-> message,
         order_number |-> row.order_number,
         item_type |-> item_type,
         units |-> units,
         fabric_required_std |-> fabric_required_std,
         no_standard_warning |-> NoStandardWarning(item_type),
         defaults |-> LoadCost(fabric_cost_1, row.order_number),
         fabric_required |-> fabric_required,
         warnings |-> Validate(inp.fabric_issued, fabric_required, inp.fabric_rate),
         breakdown |-> Compute(units, inp),
         accessories |-> accessories,
         total_accessories_cost |->
             TotalAccessoriesCost(accessories, units, inp.accessories_rate),
         history_rows |-> HistoryListing(history_seen, row.order_number)]

CostSheetNoOrders ==
    /\ Gate
    /\ orders = <<>>
    /\ request' = [page |-> "Cost Sheet", button |-> "None"]
    /\ view' = [page |-> "Cost Sheet", message |-> "No orders available."]
    /\ UNCHANGED <<store, session, now, saved>>

\* A run of the page with no form submitted: the widgets show the loaded defaults.
CostSheetView(selected_order, override) ==
    /\ Gate
    /\ selected_order \in OrderMapKeys
    /\ request' = [page |-> "Cost Sheet", button |-> "None",
                   selected_order |-> selected_order, override |-> override]
    /\ view' = CostSheetPage(selected_order,
                             CostInput(LoadCost(fabric_cost_1, selected_order)),
                             override, "", fabric_cost_history, accessories_details)
    /\ UNCHANGED <<store, session, now, saved>>

\* The run in which "Save Cost Record" was pressed: the history INSERT, the upsert and
\* the commit inside one try block, the listings read afterwards on the same
\* connection, and conn.close() at the end of the script, which discards whatever was
\* not committed.
SaveCost(selected_order, inp, override, fault) ==
    /\ Gate
    /\ now < MaxStep
    /\ selected_order \in OrderMapKeys
    /\ LET row == OrderMap(selected_order)
           last_updated == now
           values == CostRow(row.order_number, ItemType(row.product), row.quantity,
                             inp, last_updated)
           history_written == IF fault.at = "insert" THEN fabric_cost_history
                              ELSE InsertHistory(fabric_cost_history, values)
           cost_written == IF fault.at \in {"insert", "upsert"} THEN fabric_cost_1
                           ELSE Upsert(fabric_cost_1, values)
           committed == fault.at = "none"
           still_open == fault.at # "none" /\ fault.txn = "open"
           history_seen == IF committed \/ still_open THEN history_written
                           ELSE fabric_cost_history
       IN  /\ fabric_cost_history' = Close(fabric_cost_history, history_written, committed)
           /\ fabric_cost_1' = Close(fabric_cost_1, cost_written, committed)
           /\ saved' = IF committed
                       THEN [saved EXCEPT ![row.order_number] = Append(@, inp)]
                       ELSE saved
           /\ view' = CostSheetPage(selected_order, inp, override,
                                    IF committed
                                    THEN "Cost record saved/updated successfully."
                                    ELSE "Error saving cost",
                                    history_seen, accessories_details)
    /\ request' = [page |-> "Cost Sheet", button |-> "Save Cost Record",
                   selected_order |-> selected_order, inp |-> inp,
                   override |-> override, fault |-> fault]
    /\ now' = now + 1
    /\ UNCHANGED <<orders, fabric_standards, accessories_details, session>>

AccessoryForms ==
    { [accessory_type |-> "", quantity |-> 0, rate |-> 0],
      [accessory_type |-> "Buttons", quantity |-> 2, rate |-> 3] }

\* Where the INSERT of an accessory fails, if it does.
AccessoryFaults == {"none", "insert"}

InsertAccessoryMerged(accessories, order_number, accessory_type, quantity, rate, last_updated) ==
    IF \E i \in 1..Len(accessories) :
           /\ accessories[i].order_number = order_number
           /\ accessories[i].accessory_type = accessory_type
    THEN [i \in 1..Len(accessories) |->
            IF /\ accessories[i].order_number = order_number
               /\ accessories[i].accessory_type = accessory_type
            THEN [accessories[i] EXCEPT !.quantity = @ + quantity, !.rate = rate,
                                        !.last_updated = last_updated]
            ELSE accessories[i]]
    ELSE Append(accessories,
                [id |-> Len(accessories) + 1, order_number |-> order_number,
                 accessory_type |-> accessory_type, quantity |-> quantity,
                 rate |-> rate, last_updated |-> last_updated])

\* INSERT INTO accessories_details (order_number, accessory_type, quantity, rate,
\* last_updated): a new row under the next autoincrement id.
InsertAccessory(accessories, order_number, accessory_type, quantity, rate, last_updated) ==
    Append(accessories,
           [id |-> Len(accessories) + 1, order_number |-> order_number,
            accessory_type |-> accessory_type, quantity |-> quantity,
            rate |-> rate, last_updated |-> last_updated])

\* The run in which "Add Accessory" was pressed: the INSERT and the commit inside one
\* try block, then the listings.
AddAccessory(selected_order, accessory_type, accessory_quantity, accessory_rate, fault) ==
    /\ Gate
    /\ now < MaxStep
    /\ selected_order \in OrderMapKeys
    /\ accessories_details' =
           IF fault = "none"
           THEN InsertAccessory(accessories_details,
                                OrderMap(selected_order).order_number,
                                accessory_type, accessory_quantity, accessory_rate, now)
           ELSE accessories_details
    /\ request' = [page |-> "Cost Sheet", button |-> "Add Accessory",
                   selected_order |-> selected_order,
                   accessory_type |-> accessory_type,
                   accessory_quantity |-> accessory_quantity,
                   accessory_rate |-> accessory_rate,
                   fault |-> fault]
    /\ view' = CostSheetPage(selected_order,
                             CostInput(LoadCost(fabric_cost_1, selected_order)),
                             [touched |-> FALSE, value |-> 0],
                             IF fault = "none" THEN "Accessory added."
                             ELSE "Error adding accessory",
                             fabric_cost_history, accessories_details')
    /\ now' = now + 1
    /\ UNCHANGED <<orders, fabric_cost_1, fabric_standards, fabric_cost_history,
                   session, saved>>

-----------------------------------------------------------------------------
(* Input sets of the specifications *)

StatusFilters == {"All", "Open", "Closed"}

\* The stage counts the Orders page submits: a unit reaches a stage after the one before.
StageForms ==
    {st \in StageRange(MaxQty) \X StageRange(MaxQty) \X StageRange(MaxQty) \X StageRange(MaxQty) :
        st[1] >= st[2] /\ st[2] >= st[3] /\ st[3] >= st[4]}

Untouched == [touched |-> FALSE, value |-> 0]

-----------------------------------------------------------------------------
(* The application: any request cycle of any page, from a new database file *)

Next ==
    \/ \E att \in LoginAttempts : Login(att)
    \/ Logout
    \/ Dashboard(Today)
    \/ OrdersPage
    \/ \E id \in 1..Len(orders) :
         \/ UpdateStages(id, orders[id].quantity, orders[id].quantity,
                         orders[id].quantity, orders[id].quantity)
         \/ UpdateStages(id, orders[id].quantity, 0, 0, 0)
    \/ \E status_filter \in StatusFilters : Record(status_filter)
    \/ \E form \in OrderForms : CreateOrder(form, MaxQty)
    \/ CostSheetNoOrders
    \/ \E o \in OrderNumbers : CostSheetView(o, Untouched)
    \/ \E o \in OrderNumbers, fault \in {NoFault, [at |-> "upsert", txn |-> "open"]} :
         SaveCost(o, ExampleInput, Untouched, fault)
    \/ \E o \in OrderNumbers, a \in AccessoryForms, fault \in AccessoryFaults :
         AddAccessory(o, a.accessory_type, a.quantity, a.rate, fault)

Spec == Init /\ [][Next]_vars

-----------------------------------------------------------------------------
(* The Order Registry: Data Entry, Orders, Record and Dashboard pages *)

NextOrders ==
    \/ \E att \in LoginAttempts : Login(att)
    \/ \E today \in Todays : Dashboard(today)
    \/ OrdersPage
    \/ \E id \in 1..Len(orders), st \in StageForms :
         UpdateStages(id, st[1], st[2], st[3], st[4])
    \/ \E status_filter \in StatusFilters : Record(status_filter)
    \/ \E form \in OrderForms, quantity \in Quantities : CreateOrder(form, quantity)

SpecOrders == Init /\ [][NextOrders]_vars

-----------------------------------------------------------------------------
(* The Cost Sheet page: load, save with faults, accessories *)

CostOrderForms == {form \in OrderForms : form.customer = "Zen Ltd"}

NextCost ==
    \/ \E att \in LoginAttempts : Login(att)
    \/ \E form \in CostOrderForms, quantity \in Quantities : CreateOrder(form, quantity)
    \/ CostSheetNoOrders
    \/ \E o \in OrderNumbers : CostSheetView(o, Untouched)
    \/ \E o \in OrderNumbers, inp \in CostForms, fault \in SaveFaults :
         SaveCost(o, inp, Untouched, fault)
    \/ \E o \in OrderNumbers, a \in AccessoryForms, fault \in AccessoryFaults :
         AddAccessory(o, a.accessory_type, a.quantity, a.rate, fault)

SpecCost == Init /\ [][NextCost]_vars

-----------------------------------------------------------------------------
(* The Fabric Standards Resolver on any stored standards table *)

\* Rows a database file may hold in fabric_standards besides the seeded ones.
StandardRows ==
    { [product_type |-> "top", size |-> "standard", style |-> "regular", fabric_per_unit |-> 20],
      [product_type |-> "top", size |-> "standard", style |-> "slim", fabric_per_unit |-> 16],
      [product_type |-> "top", size |-> "large", style |-> "regular", fabric_per_unit |-> 18],
      [product_type |-> "suit", size |-> "standard", style |-> "regular", fabric_per_unit |-> 25],
      [product_type |-> "cape", size |-> "standard", style |-> "regular", fabric_per_unit |-> 30] }

\* The tables of at most MaxStd different rows, in any order.
StandardsTables ==
    UNION { {t \in [1..n -> StandardRows] : \A i, j \in 1..n : t[i] = t[j] => i = j}
            : n \in 0..MaxStd }

\* Products an orders row of the file may name: the three options of the order form
\* and names the form does not offer.
ResolveProducts == {"Tops", "Trousers", "TOP", "Cape"}

ResolveForm(product) ==
    [order_number |-> "ORD-2023-004", customer |-> "Acme Corp", product |-> product,
     due_date |-> Today]

\* A script run on a database file that already holds one order and any standards table.
InitResolve ==
    /\ \E product \in ResolveProducts, quantity \in Quantities :
         orders = <<OrderRow(1, ResolveForm(product), quantity)>>
    /\ \E existing \in StandardsTables : fabric_standards = DatabaseSetup(existing)
    /\ fabric_cost_1 = {}
    /\ fabric_cost_history = <<>>
    /\ accessories_details = <<>>
    /\ authenticated = FALSE
    /\ username = ""
    /\ now = 0
    /\ request = [page |-> "None"]
    /\ view = [page |-> "Login", message |-> ""]
    /\ saved = NoSaves

NextResolve ==
    \/ \E att \in LoginAttempts : Login(att)
    \/ \E o \in OrderNumbers, override \in OverrideInputs : CostSheetView(o, override)

SpecResolve == InitResolve /\ [][NextResolve]_vars

-----------------------------------------------------------------------------
(* The cost calculations on any submitted form *)

ComputeUnits == {0, 1, 2, 10}

\* Every form whose fields are 0 or the value below; the worked example is one of them.
ComputeInputs ==
    { CostInput(t) : t \in {0, 15} \X {0, 5} \X {0, 2} \X {0, 1} \X {0, 3} \X {0, 4}
                           \X {0, 4} \X {0, 4} \X {0, 7} \X {0, 9} \X {0, 50} \X {0, 10} }

\* A script run on a database file that already holds one order of any unit count.
InitCompute ==
    /\ \E units \in ComputeUnits : orders = <<OrderRow(1, ResolveForm("Tops"), units)>>
    /\ fabric_standards = DatabaseSetup(<<>>)
    /\ fabric_cost_1 = {}
    /\ fabric_cost_history = <<>>
    /\ accessories_details = <<>>
    /\ authenticated = FALSE
    /\ username = ""
    /\ now = 0
    /\ request = [page |-> "None"]
    /\ view = [page |-> "Login", message |-> ""]
    /\ saved = NoSaves

NextCompute ==
    \/ \E att \in LoginAttempts : Login(att)
    \/ \E o \in OrderNumbers, inp \in ComputeInputs :
         now = 0 /\ SaveCost(o, inp, Untouched, NoFault)

SpecCompute == InitCompute /\ [][NextCompute]_vars

-----------------------------------------------------------------------------
(* Properties *)

PageNames == {"Dashboard", "Orders", "Record", "Cost Sheet", "Data Entry"}

\* The twelve inputs of a submitted cost form in the order Load returns them.
AsDefaults(inp) ==
    <<inp.fabric_issued, inp.fabric_rate, inp.accessories_rate, inp.printing_rate,
      inp.overhead_per_unit, inp.labor_cutting_rate, inp.labor_sewing_rate,
      inp.labor_finishing_rate, inp.dyeing_rate, inp.embroidery_rate,
      inp.shipping_cost, inp.misc_cost>>

HistoryOf(o) ==
    LET Match(r) == r.order_number = o IN SelectSeq(fabric_cost_history, Match)

\* C1: a save that fails at the upsert, after the history insert, leaves both cost
\* tables as they were, and the Cost History listing of that same request cycle shows
\* only the rows the table held before the save.
C1_SaveIsAtomic ==
    [][ ( /\ request'.page = "Cost Sheet"
          /\ request'.button = "Save Cost Record"
          /\ request'.fault.at = "upsert" )
        => /\ fabric_cost_history' = fabric_cost_history
           /\ fabric_cost_1' = fabric_cost_1
           /\ view'.history_rows =
                  HistoryListing(fabric_cost_history, request'.selected_order) ]_vars

\* C2: every stored stage counter of every order is between 0 and the order's quantity,
\* and the order a Create has just added has its four counters at 0.
C2_StageBounds ==
    /\ \A i \in 1..Len(orders) :
         /\ 0 <= orders[i].cutting /\ orders[i].cutting <= orders[i].quantity
         /\ 0 <= orders[i].sewing /\ orders[i].sewing <= orders[i].quantity
         /\ 0 <= orders[i].finishing /\ orders[i].finishing <= orders[i].quantity
         /\ 0 <= orders[i].packaging /\ orders[i].packaging <= orders[i].quantity
    /\ (request.page = "Data Entry" /\ view.message = "Order added successfully!")
         => LET new == orders[Len(orders)]
            IN  /\ new.order_number = request.order_number
                /\ new.cutting = 0 /\ new.sewing = 0
                /\ new.finishing = 0 /\ new.packaging = 0

\* C2 witness: an UpdateStages has stored a counter equal to the quantity and another
\* one below it.
C2_Witness ==
    /\ request.page = "Orders"
    /\ request.button = "Update"
    /\ \E i \in 1..Len(orders) :
         /\ orders[i].id = request.id
         /\ orders[i].cutting = orders[i].quantity
         /\ orders[i].packaging < orders[i].quantity
         /\ orders[i].quantity > 1

\* C3: for every order number, the history holds exactly one row per acknowledged save,
\* the k-th row still carrying the inputs of the k-th acknowledged save, and the
\* current-record table holds one row for it if there was a save and none otherwise.
C3_HistoryAppendOnly ==
    \A o \in OrderNumbers :
        LET h == HistoryOf(o)
        IN  /\ Len(h) = Len(saved[o])
            /\ \A k \in 1..Len(h) :
                 /\ LoadCost({h[k]}, o) = AsDefaults(saved[o][k])
                 /\ \A j \in 1..Len(h) : h[j].id = h[k].id => j = k
            /\ Cardinality({r \in fabric_cost_1 : r.order_number = o})
                 = IF Len(saved[o]) >= 1 THEN 1 ELSE 0

\* C3 witness: two saves of one order have succeeded.
C3_Witness ==
    \E o \in OrderNumbers :
        /\ Len(saved[o]) = 2
        /\ Len(HistoryOf(o)) = 2
        /\ request.button = "Save Cost Record"

\* C4: Load of an order returns the twelve inputs of its last acknowledged save, field
\* by field, and twelve zeros when it has none; the Cost Sheet shows those as defaults.
C4_SaveLoadRoundTrip ==
    LET Expected(o) == IF saved[o] = <<>> THEN ZeroDefaults
                       ELSE AsDefaults(saved[o][Len(saved[o])])
    IN  /\ \A o \in OrderNumbers :
             IF saved[o] = <<>>
             THEN LoadCost(fabric_cost_1, o) = <<0, 0, 0, 0, 0, 0, 0, 0, 0, 0, 0, 0>>
             ELSE LoadCost(fabric_cost_1, o) = Expected(o)
        /\ ( /\ request.page = "Cost Sheet"
             /\ request.button = "None"
             /\ view.message # "No orders available." )
           => view.defaults = Expected(view.order_number)

\* C4 witness: a Cost Sheet run loads the record of an order whose second save replaced
\* a different first one.
C4_Witness ==
    /\ request.page = "Cost Sheet"
    /\ request.button = "None"
    /\ view.message # "No orders available."
    /\ Len(saved[view.order_number]) = 2
    /\ \A k \in 1..12 :
         AsDefaults(saved[view.order_number][1])[k] # AsDefaults(saved[view.order_number][2])[k]
    /\ view.defaults = AsDefaults(saved[view.order_number][2])

\* C5: a Create whose order number is stored already reports the duplicate and changes
\* no table; a Create with a new number appends exactly one row, with that number, and
\* changes no other row.
C5_DuplicateCreate ==
    [][ request'.page = "Data Entry"
        => IF \E i \in 1..Len(orders) : orders[i].order_number = request'.order_number
           THEN /\ store' = store
                /\ view'.message = "Order number must be unique."
           ELSE /\ Len(orders') = Len(orders) + 1
                /\ SubSeq(orders', 1, Len(orders)) = orders
                /\ orders'[Len(orders')].order_number = request'.order_number
                /\ orders'[Len(orders')].customer = request'.customer
                /\ orders'[Len(orders')].quantity = request'.quantity
                /\ request'.quantity >= 1
                /\ view'.message = "Order added successfully!" ]_vars

\* C5 witness: a Create with a stored number and another customer has been rejected,
\* and the stored order has stage counts of its own.
C5_Witness ==
    /\ request.page = "Data Entry"
    /\ view.message = "Order number must be unique."
    /\ \E i \in 1..Len(orders) :
         /\ orders[i].order_number = request.order_number
         /\ orders[i].customer # request.customer
         /\ orders[i].product # request.product
         /\ orders[i].cutting > 0

\* C6: a page runs only in a step that starts with the session flag set; the flag turns
\* true only in a login step whose username and password are an entry of the
\* credential table; a logout step leaves it false.
C6_AuthenticationGate ==
    [][ /\ request'.page \in PageNames => authenticated
        /\ (~authenticated /\ authenticated')
             => /\ request'.page = "Login"
                /\ request'.username \in {"admin", "user1"}
                /\ users[request'.username] = request'.password
        /\ request'.page = "Logout" => ~authenticated' ]_vars

\* C6 witness: the session is logged out again while the store holds an order and a
\* cost record.
C6_Witness ==
    /\ ~authenticated
    /\ request.page = "Logout"
    /\ orders # <<>>
    /\ fabric_cost_1 # {}

\* C7: the breakdown a submitted cost form displays follows the reference formulas:
\* fabric_cost is issued times rate, each per-unit cost is units times its rate, the
\* total is the sum of the nine costs, shipping and misc, cost_per_unit is total / units
\* and 0 for no units; the worked example gives 315 and 31.5.
C7_ComputeFormulas ==
    (request.page = "Cost Sheet" /\ request.button = "Save Cost Record")
    => LET b == view.breakdown
           inp == request.inp
           units == view.units
       IN  /\ b.fabric_cost = inp.fabric_issued * inp.fabric_rate
           /\ b.accessories_cost = units * inp.accessories_rate
           /\ b.printing_cost = units * inp.printing_rate
           /\ b.overhead_cost = units * inp.overhead_per_unit
           /\ b.labor_cutting_cost = units * inp.labor_cutting_rate
           /\ b.labor_sewing_cost = units * inp.labor_sewing_rate
           /\ b.labor_finishing_cost = units * inp.labor_finishing_rate
           /\ b.dyeing_cost = units * inp.dyeing_rate
           /\ b.embroidery_cost = units * inp.embroidery_rate
           /\ b.total_cost = SumSeq(<<b.fabric_cost, b.accessories_cost, b.printing_cost,
                                      b.overhead_cost, b.labor_cutting_cost,
                                      b.labor_sewing_cost, b.labor_finishing_cost,
                                      b.dyeing_cost, b.embroidery_cost,
                                      inp.shipping_cost, inp.misc_cost>>)
           /\ b.cost_per_unit.den > 0
           /\ units > 0 => b.cost_per_unit.num * units = b.total_cost * b.cost_per_unit.den
           /\ units = 0 => b.cost_per_unit.num = 0
           /\ (units = 10 /\ AsDefaults(inp) = <<15, 5, 2, 1, 3, 4, 4, 4, 0, 0, 50, 10>>)
                => /\ b.total_cost = 315
                   /\ 10 * b.cost_per_unit.num = 315 * b.cost_per_unit.den

\* C7 witness: the worked example has been submitted for an order of 10 units.
C7_Witness ==
    /\ request.page = "Cost Sheet"
    /\ request.button = "Save Cost Record"
    /\ view.units = 10
    /\ AsDefaults(request.inp) = <<15, 5, 2, 1, 3, 4, 4, 4, 0, 0, 50, 10>>
    /\ view.breakdown.total_cost = 315
    /\ view.breakdown.cost_per_unit = [num |-> 63, den |-> 2]

\* C7 as claimed: the breakdown a submitted cost form displays follows the reference formulas:
\* fabric_cost is issued times rate, each per-unit cost is units times its rate, the
\* total is the sum of the nine costs, shipping and misc, cost_per_unit is total / units
\* and 0 for no units; the worked example gives 335 and 33.5.
C7_ComputeFormulasAsClaimed ==
    (request.page = "Cost Sheet" /\ request.button = "Save Cost Record")
    => LET b == view.breakdown
           inp == request.inp
           units == view.units
       IN  /\ b.fabric_cost = inp.fabric_issued * inp.fabric_rate
           /\ b.accessories_cost = units * inp.accessories_rate
           /\ b.printing_cost = units * inp.printing_rate
           /\ b.overhead_cost = units * inp.overhead_per_unit
           /\ b.labor_cutting_cost = units * inp.labor_cutting_rate
           /\ b.labor_sewing_cost = units * inp.labor_sewing_rate
           /\ b.labor_finishing_cost = units * inp.labor_finishing_rate
           /\ b.dyeing_cost = units * inp.dyeing_rate
           /\ b.embroidery_cost = units * inp.embroidery_rate
           /\ b.total_cost = SumSeq(<<b.fabric_cost, b.accessories_cost, b.printing_cost,
                                      b.overhead_cost, b.labor_cutting_cost,
                                      b.labor_sewing_cost, b.labor_finishing_cost,
                                      b.dyeing_cost, b.embroidery_cost,
                                      inp.shipping_cost, inp.misc_cost>>)
           /\ b.cost_per_unit.den > 0
           /\ units > 0 => b.cost_per_unit.num * units = b.total_cost * b.cost_per_unit.den
           /\ units = 0 => b.cost_per_unit.num = 0
           /\ (units = 10 /\ AsDefaults(inp) = <<15, 5, 2, 1, 3, 4, 4, 4, 0, 0, 50, 10>>)
                => /\ b.total_cost = 335
                   /\ 10 * b.cost_per_unit.num = 335 * b.cost_per_unit.den

\* C8: the Record page writes nothing, and the status it shows for an order is "Closed"
\* exactly when the stored packaging count has reached the stored quantity, "Open"
\* otherwise; the status filter keeps the rows of that status in order.
C8_DeriveStatus ==
    [][ request'.page = "Record"
        => LET Status(i) == IF orders[i].packaging >= orders[i].quantity
                            THEN "Closed" ELSE "Open"
               kept == {i \in 1..Len(orders) :
                           request'.status_filter \in {"All", Status(i)}}
               shown == view'.rows
           IN  /\ store' = store
               /\ Len(shown) = Cardinality(kept)
               /\ \A k \in 1..Len(shown) :
                    \E i \in kept :
                        /\ Cardinality({j \in kept : j < i}) = k - 1
                        /\ shown[k].order_number = orders[i].order_number
                        /\ shown[k].status = Status(i)
                        /\ shown[k].status = "Closed" <=> shown[k].packaging >= shown[k].quantity ]_vars

\* C8 witness: the Record page shows a closed order and an open order whose other
\* stages are complete.
C8_Witness ==
    /\ request.page = "Record"
    /\ \E k \in 1..Len(view.rows) :
         view.rows[k].status = "Closed" /\ view.rows[k].packaging = view.rows[k].quantity
    /\ \E k \in 1..Len(view.rows) :
         /\ view.rows[k].status = "Open"
         /\ view.rows[k].finishing = view.rows[k].quantity

\* C9: the standard fabric the Cost Sheet shows is units times the fabric_per_unit of a
\* stored (item type, "standard") row when there is one, else units times the built-in
\* constant of the item type (top 1.5, trouser 1.0, suit 2.5), else 0; the no-standard
\* warning is shown exactly when the item type has neither a row nor a constant.
C9_Resolve ==
    (request.page = "Cost Sheet" /\ view.message # "No orders available.")
    => LET t == view.item_type
           rows == {i \in 1..Len(fabric_standards) :
                       /\ fabric_standards[i].product_type = t
                       /\ fabric_standards[i].size = "standard"}
           builtin == {"top", "trouser", "suit"}
       IN  /\ rows # {} =>
                 \E i \in rows :
                     /\ view.fabric_required_std
                          = fabric_standards[i].fabric_per_unit * view.units
                     /\ \A j \in rows : i <= j
           /\ (rows = {} /\ t = "top") => view.fabric_required_std = 15 * view.units
           /\ (rows = {} /\ t = "trouser") => view.fabric_required_std = 10 * view.units
           /\ (rows = {} /\ t = "suit") => view.fabric_required_std = 25 * view.units
           /\ (rows = {} /\ t \notin builtin) => view.fabric_required_std = 0
           /\ view.no_standard_warning <=> (rows = {} /\ t \notin builtin)

\* C9 witness: a trouser order on a standards table that has rows but none for trouser:
\* the constant 1.0 per unit decides and no warning is shown.
C9_Witness ==
    /\ request.page = "Cost Sheet"
    /\ view.message # "No orders available."
    /\ view.item_type = "trouser"
    /\ fabric_standards # <<>>
    /\ \A i \in 1..Len(fabric_standards) : fabric_standards[i].product_type # "trouser"
    /\ view.fabric_required_std = 10 * view.units
    /\ ~view.no_standard_warning

\* C10: the fabric required is the override times units when the user supplied an
\* override above 0, and otherwise the standard fabric the resolver gave (the stored
\* standards row, else the built-in constant, times units).
C10_RequiredFabric ==
    ( /\ request.page = "Cost Sheet"
      /\ request.button = "None"
      /\ view.message # "No orders available." )
    => IF request.override.touched /\ request.override.value > 0
       THEN view.fabric_required = request.override.value * view.units
       ELSE view.fabric_required = view.fabric_required_std

\* C11: in every run that submits the cost form, the deviation advisory is shown exactly
\* when the fabric issued is below 0.8 times or above 1.2 times the fabric required, and
\* the rate advisory exactly when the rate is below 1 or above 50; and when the writes
\* meet no database fault the form is saved whatever the advisories say: one history row
\* with the submitted inputs is appended and the current record carries them.
C11_WarningsNeverBlock ==
    [][ ( /\ request'.page = "Cost Sheet"
          /\ request'.button = "Save Cost Record" )
        => LET inp == request'.inp
               o == request'.selected_order
               required == view'.fabric_required
           IN  /\ view'.warnings.deviation
                     <=> ( \/ 10 * inp.fabric_issued * 10 < 8 * required
                           \/ 10 * inp.fabric_issued * 10 > 12 * required )
               /\ view'.warnings.unusual_rate
                     <=> (inp.fabric_rate < 1 \/ inp.fabric_rate > 50)
               /\ request'.fault.at = "none"
                     => /\ Len(fabric_cost_history') = Len(fabric_cost_history) + 1
                        /\ SubSeq(fabric_cost_history', 1, Len(fabric_cost_history))
                              = fabric_cost_history
                        /\ LET new == fabric_cost_history'[Len(fabric_cost_history')]
                           IN  /\ new.order_number = o
                               /\ LoadCost({new}, o) = AsDefaults(inp)
                        /\ LoadCost(fabric_cost_1', o) = AsDefaults(inp)
                        /\ view'.message = "Cost record saved/updated successfully." ]_vars

\* C11 witness: a form that raises both advisories has been saved.
C11_Witness ==
    /\ request.page = "Cost Sheet"
    /\ request.button = "Save Cost Record"
    /\ request.fault.at = "none"
    /\ view.warnings.deviation
    /\ view.warnings.unusual_rate
    /\ view.message = "Cost record saved/updated successfully."
    /\ LoadCost(fabric_cost_1, request.selected_order) = AsDefaults(request.inp)

AccessoriesOf(accessories, o, t) ==
    LET Match(r) == r.order_number = o /\ r.accessory_type = t
    IN  SelectSeq(accessories, Match)

\* C12: every step leaves the accessory ledger as it was or appends one row after the
\* rows it had; only a run that pressed Add Accessory changes it; and an Add that is
\* acknowledged appends one row with the submitted order, type, quantity and rate, so
\* the number of rows of that order and type grows by exactly one.
C12_AccessoryAppendOnly ==
    [][ LET n == Len(accessories_details)
            added == /\ request'.page = "Cost Sheet"
                     /\ request'.button = "Add Accessory"
        IN  /\ \/ accessories_details' = accessories_details
               \/ /\ Len(accessories_details') = n + 1
                  /\ SubSeq(accessories_details', 1, n) = accessories_details
            /\ ~added => accessories_details' = accessories_details
            /\ (added /\ view'.message = "Accessory added.")
                 => LET new == accessories_details'[Len(accessories_details')]
                        o == request'.selected_order
                        t == request'.accessory_type
                    IN  /\ Len(accessories_details') = n + 1
                        /\ new.order_number = o
                        /\ new.accessory_type = t
                        /\ new.quantity = request'.accessory_quantity
                        /\ new.rate = request'.accessory_rate
                        /\ Len(AccessoriesOf(accessories_details', o, t))
                             = Len(AccessoriesOf(accessories_details, o, t)) + 1
                        /\ Len(view'.accessories)
                             = Len(AccessoryListing(accessories_details, o)) + 1 ]_vars

\* C12 witness: two acknowledged Adds of the same order and type have left two rows.
C12_Witness ==
    /\ request.page = "Cost Sheet"
    /\ request.button = "Add Accessory"
    /\ view.message = "Accessory added."
    /\ request.accessory_type = "Buttons"
    /\ Len(AccessoriesOf(accessories_details, request.selected_order, "Buttons")) = 2

\* C13: every row of accessories_details has a non-empty accessory type and a quantity
\* and a rate that are not negative.
C13_AccessoryTypeNonEmpty ==
    \A i \in 1..Len(accessories_details) :
        /\ accessories_details[i].accessory_type # ""
        /\ accessories_details[i].quantity >= 0
        /\ accessories_details[i].rate >= 0

\* C14: on the Dashboard of a registry that holds orders, the on-track count is the
\* number of orders due strictly after today, the at-risk count the number due strictly
\* before today, an order due today is in neither count, and the two counts together
\* never exceed the number of orders.
C14_CompletionMetrics ==
    (request.page = "Dashboard" /\ orders # <<>>)
      => LET DayNumber(d) == (d.year * 12 + d.month) * 31 + d.day
             today == DayNumber(request.today)
             Due(i) == DayNumber([year |-> orders[i].due_date[1],
                                  month |-> orders[i].due_date[2],
                                  day |-> orders[i].due_date[3]])
             after == {i \in 1..Len(orders) : Due(i) > today}
             before == {i \in 1..Len(orders) : Due(i) < today}
             same == {i \in 1..Len(orders) : Due(i) = today}
         IN  /\ view.on_track = Cardinality(after)
             /\ view.at_risk = Cardinality(before)
             /\ view.on_track + view.at_risk = Len(orders) - Cardinality(same)
             /\ view.on_track + view.at_risk <= Len(orders)
             /\ view.active_orders = Len(orders)

\* C14 witness: the Dashboard is opened on the due date of one order while another
\* order is due on a different day, so that exactly one of two orders is counted.
C14_Witness ==
    /\ request.page = "Dashboard"
    /\ Len(orders) = 2
    /\ \E i \in 1..2 : ToDate(orders[i].due_date) = request.today
    /\ view.on_track + view.at_risk = 1

\* C15: no step removes an order or changes the id, order number, customer, product,
\* due date or quantity of a stored order; an UpdateStages writes the four submitted
\* counters to the order it names and leaves every other order and the cost, history,
\* standards and accessory tables as they were; and the stored order numbers are
\* pairwise distinct.
C15_OrderIdentityImmutable ==
    [][ /\ Len(orders') >= Len(orders)
        /\ \A i \in 1..Len(orders) :
             /\ orders'[i].id = orders[i].id
             /\ orders'[i].order_number = orders[i].order_number
             /\ orders'[i].customer = orders[i].customer
             /\ orders'[i].product = orders[i].product
             /\ orders'[i].due_date = orders[i].due_date
             /\ orders'[i].quantity = orders[i].quantity
        /\ \A i, j \in 1..Len(orders') :
             orders'[i].order_number = orders'[j].order_number => i = j
        /\ (request'.page = "Orders" /\ request'.button = "Update")
             => /\ Len(orders') = Len(orders)
                /\ \A i \in 1..Len(orders) :
                     IF orders[i].id = request'.id
                     THEN /\ orders'[i].cutting = request'.cutting
                          /\ orders'[i].sewing = request'.sewing
                          /\ orders'[i].finishing = request'.finishing
                          /\ orders'[i].packaging = request'.packaging
                     ELSE orders'[i] = orders[i]
                /\ fabric_cost_1' = fabric_cost_1
                /\ fabric_cost_history' = fabric_cost_history
                /\ fabric_standards' = fabric_standards
                /\ accessories_details' = accessories_details ]_vars

\* C15 witness: an UpdateStages has changed the counters of one of two orders, whose
\* counters now differ from the other's, while the cost, history and accessory tables
\* hold rows.
C15_Witness ==
    /\ request.page = "Orders"
    /\ request.button = "Update"
    /\ Len(orders) = 2
    /\ \E i, j \in 1..2 :
         /\ orders[i].id = request.id
         /\ orders[i].cutting = orders[i].quantity
         /\ j # i
         /\ orders[j].cutting = 0
    /\ fabric_cost_1 # {}
    /\ fabric_cost_history # <<>>
    /\ accessories_details # <<>>

\* C16: in every state, an order number has a current cost record exactly when the
\* history holds a row for it, that record equals the last row the history holds for
\* the order in every column, last_updated included, and every current, history and
\* accessory row carries the order number of a stored order.
C16_CurrentMatchesHistory ==
    LET Stored(o) == \E i \in 1..Len(orders) : orders[i].order_number = o
        Columns(r) == [order_number |-> r.order_number, item_type |-> r.item_type,
                       units |-> r.units, inputs |-> LoadCost({r}, r.order_number),
                       last_updated |-> r.last_updated]
    IN  /\ \A o \in OrderNumbers :
             LET h == HistoryOf(o)
                 current == {r \in fabric_cost_1 : r.order_number = o}
             IN  /\ (current # {}) <=> (h # <<>>)
                 /\ \A r \in current : Columns(r) = Columns(h[Len(h)])
        /\ \A r \in fabric_cost_1 : Stored(r.order_number)
        /\ \A k \in 1..Len(fabric_cost_history) :
             Stored(fabric_cost_history[k].order_number)
        /\ \A k \in 1..Len(accessories_details) :
             Stored(accessories_details[k].order_number)

\* C16 witness: an order has a current record from a save that succeeded, and a later
\* save for it has failed after its history insert; the record and the single history
\* row still carry the time of the first save.
C16_Witness ==
    /\ request.page = "Cost Sheet"
    /\ request.button = "Save Cost Record"
    /\ request.fault.at = "upsert"
    /\ now = 2
    /\ Len(HistoryOf(request.selected_order)) = 1
    /\ \E r \in fabric_cost_1 :
         /\ r.order_number = request.selected_order
         /\ r.last_updated = 0

=============================================================================
